---- MODULE Spec2Model ----
(***************************************************************************)
(* Model of the week_8 housing-statistics scripts:                         *)
(*   task_3.py  census pivot, derived dwelling totals, region lookup merge *)
(*   task_4.py  district x property-type count pivot, lookup matching      *)
(*   task_5.py  regional merge, percentages, national totals, maxima       *)
(* A table is a sequence of records (row order as pandas produces it).     *)
(* A float cell is an integer number of hundredths (12.34 -> 1234), or one *)
(* of the two non-finite values NaN and Inf.  A null cell is NaN.          *)
(***************************************************************************)
EXTENDS Integers, Sequences, FiniteSets, TLC

\* ------------------------------------------------------------------ bounds
MaxRegions == 2
MaxDwellings == 2
MaxSales == 2
MaxTransactions == 2
MaxLookupRows == 2
MaxLads == 2
MaxObservation == 1

\* ------------------------------------------------------- values and helpers
\* pandas' null / numpy NaN, and +inf (result of x/0 with x > 0)
NaN == -1
Inf == -2
\* Region_Code of the synthetic grand-total row
NATIONAL == 0

Regions == 1..MaxRegions
PropertyTypes == {"D", "F", "S", "T"}

IsNull(v) == v = NaN

\* Series.fillna(0)
FillNa0(v) == IF IsNull(v) THEN 0 ELSE v

SetMin(S) == CHOOSE x \in S : \A y \in S : x <= y

\* the elements of a finite set of integers in ascending order
RECURSIVE SortedSeq(_)
SortedSeq(S) ==
  IF S = {} THEN <<>>
  ELSE LET m == SetMin(S) IN <<m>> \o SortedSeq(S \ {m})

\* Series.sum(): nulls are skipped, the empty sum is 0
RECURSIVE SeqSum(_)
SeqSum(s) ==
  IF s = <<>> THEN 0
  ELSE (IF IsNull(Head(s)) THEN 0 ELSE Head(s)) + SeqSum(Tail(s))

Column(df, c) == [i \in 1..Len(df) |-> df[i][c]]

\* ------------------------------------------------- IEEE 754 binary64 values
\* The percentages are computed on float64.  A positive double is a record
\* [m, e] standing for m * 2^e, where m is a natural number of at most 53
\* bits held as a little-endian sequence of limbs (digits in base 2^18).
LimbBits == 18
LimbBase == 262144
MantissaBits == 53

Limb(a, i) == IF i \in 1..Len(a) THEN a[i] ELSE 0

\* a * c + carry  (c and carry small)
RECURSIVE MulCarry(_, _, _)
MulCarry(a, c, carry) ==
  IF a = <<>> THEN (IF carry = 0 THEN <<>> ELSE <<carry>>)
  ELSE LET p == Head(a) * c + carry
       IN  <<p % LimbBase>> \o MulCarry(Tail(a), c, p \div LimbBase)

RECURSIVE AddOne(_)
AddOne(a) ==
  IF a = <<>> THEN <<1>>
  ELSE IF Head(a) + 1 < LimbBase THEN <<Head(a) + 1>> \o Tail(a)
  ELSE <<0>> \o AddOne(Tail(a))

RECURSIVE IntToLimbs(_)
IntToLimbs(n) ==
  IF n = 0 THEN <<>> ELSE <<n % LimbBase>> \o IntToLimbs(n \div LimbBase)

RECURSIVE LimbsToInt(_)
LimbsToInt(a) ==
  IF a = <<>> THEN 0 ELSE Head(a) + LimbBase * LimbsToInt(Tail(a))

RECURSIVE IntBitLength(_)
IntBitLength(n) == IF n = 0 THEN 0 ELSE 1 + IntBitLength(n \div 2)

RECURSIVE BitLength(_)
BitLength(a) ==
  IF a = <<>> THEN 0
  ELSE IF a[Len(a)] = 0 THEN BitLength(SubSeq(a, 1, Len(a) - 1))
  ELSE (Len(a) - 1) * LimbBits + IntBitLength(a[Len(a)])

\* bit i of a (bit 0 is the lowest)
BitAt(a, i) == (Limb(a, (i \div LimbBits) + 1) \div (2 ^ (i % LimbBits))) % 2

\* some bit of a below bit i is set
AnyBitBelow(a, i) ==
  \/ \E j \in 1..Len(a) : j <= i \div LimbBits /\ a[j] # 0
  \/ Limb(a, (i \div LimbBits) + 1) % (2 ^ (i % LimbBits)) # 0

\* floor(a / 2^f)
ShiftRight(a, f) ==
  LET w == f \div LimbBits
      t == f % LimbBits
  IN  [j \in 1..(IF Len(a) > w THEN Len(a) - w ELSE 0) |->
         (Limb(a, j + w) \div (2 ^ t))
           + (Limb(a, j + w + 1) % (2 ^ t)) * (2 ^ (LimbBits - t))]

\* a / 2^f rounded to the nearest integer, ties to even
RoundShift(a, f) ==
  IF f = 0 THEN a
  ELSE LET q == ShiftRight(a, f)
           half == BitAt(a, f - 1) = 1
           sticky == AnyBitBelow(a, f - 1)
           odd == Limb(q, 1) % 2 = 1
       IN  IF half /\ (sticky \/ odd) THEN AddOne(q) ELSE q

\* m * 2^e rounded to a double (round to nearest, ties to even)
RoundToDouble(m, e) ==
  LET n == BitLength(m)
  IN  IF n <= MantissaBits THEN [m |-> m, e |-> e]
      ELSE LET r == RoundShift(m, n - MantissaBits)
           IN  IF BitLength(r) > MantissaBits
                 THEN [m |-> ShiftRight(r, 1), e |-> e + (n - MantissaBits) + 1]
                 ELSE [m |-> r, e |-> e + (n - MantissaBits)]

\* long division of the remainder r by y, nine quotient bits at a time: acc
\* holds the quotient bits found so far, worth acc * 2^e; it stops once acc
\* has two bits more than a mantissa and appends one bit that records
\* whether anything is left  (y < 2^22)
RECURSIVE DivChunks(_, _, _, _)
DivChunks(acc, r, y, e) ==
  IF BitLength(acc) >= MantissaBits + 2
    THEN [m |-> MulCarry(acc, 2, IF r = 0 THEN 0 ELSE 1), e |-> e - 1]
  ELSE DivChunks(MulCarry(acc, 512, (r * 512) \div y), (r * 512) % y, y, e - 9)

\* the double x / y  (x > 0, y > 0)
FloatDiv(x, y) ==
  LET q == DivChunks(IntToLimbs(x \div y), x % y, y, 0)
  IN  RoundToDouble(q.m, q.e)

\* the double d * 100
FloatMul100(d) == RoundToDouble(MulCarry(d.m, 100, 0), d.e)

\* numpy.rint: the nearest integer, ties to even
Rint(d) ==
  IF d.e >= 0 THEN LimbsToInt(d.m) * (2 ^ d.e)
  ELSE LimbsToInt(RoundShift(d.m, 0 - d.e))

\* (x / y * 100).round(2) in hundredths, on doubles as numpy computes it:
\* the double x / y, times 100, then round(2) = rint(v * 100) / 100.  0/0 and
\* null operands give NaN, x/0 with x > 0 gives inf, 0/y is 0
PctRound(x, y) ==
  IF IsNull(x) \/ IsNull(y) THEN NaN
  ELSE IF y = 0 THEN (IF x = 0 THEN NaN ELSE Inf)
  ELSE IF x = 0 THEN 0
  ELSE Rint(FloatMul100(FloatMul100(FloatDiv(x, y))))

\* float comparison: NaN equals nothing, not even itself
FloatEq(a, b) == a # NaN /\ b # NaN /\ a = b

FloatLe(a, b) == b = Inf \/ (a # Inf /\ a <= b)

\* Series.max(): nulls are skipped, NaN when nothing is left
SeqMax(s) ==
  LET vals == {s[i] : i \in 1..Len(s)} \ {NaN}
  IN  IF vals = {} THEN NaN
      ELSE CHOOSE m \in vals : \A v \in vals : FloatLe(v, m)

\* ------------------------------------------------------------------- state
\* Each script is a process of its own; a name two scripts use (lookup_df,
\* final_df) is the variable of the script that is running.
VARIABLES
  pc,             \* position of the running script
  missing,        \* the input files that do not exist on disk
  reported,       \* the missing files the script has printed a warning for
  outputs,        \* the files and workbook sheets written so far, by name
  census_df,      \* task_3: RM205 census rows (long format)
  census_wide,    \* task_3: pivoted table with the derived totals
  regional_summary, \* task_3: groupby result of the regional aggregation
  lookup_df,      \* task_3: LAD -> region lookup; task_4: task_3's output
  processed_df,   \* task_4: filtered transactions
  district_dtype, \* task_4: dtype of the District column of the property file
  pivot_district, \* task_4: create_pivot_by_district result (its rows)
  pivot_columns,  \* task_4: the columns of that result, left to right
  merged,         \* task_4: left merge inside match_with_lookup
  unmatched,      \* task_4: the reported unmatched rows
  matched_df,     \* task_4: match_with_lookup result
  regional_df,    \* task_4: create_regional_summary result
  dwellings_df,   \* task_5: census_dwelling_regional_summary.csv
  sales_df,       \* task_5: task_4_regional_property_summary.csv
  merged_df,      \* task_5: merge_datasets result
  analysis_df,    \* task_5: calculate_percentages result
  complete_df,    \* task_5: calculate_national_totals result (flagged in place)
  summary_table,  \* task_5: create_summary_table result
  final_df        \* task_3: merged census table; task_5: identify_maxima result

vars3 == <<census_df, census_wide, regional_summary>>
vars4 ==
  <<processed_df, district_dtype, pivot_district, pivot_columns, merged, unmatched,
    matched_df, regional_df>>
vars5 == <<dwellings_df, sales_df, merged_df, analysis_df, complete_df, summary_table>>
files == <<missing, reported, outputs>>
vars == <<pc, files, lookup_df, final_df, vars3, vars4, vars5>>

Idle3 == census_df = <<>> /\ census_wide = <<>> /\ regional_summary = <<>>
Idle4 ==
  /\ processed_df = <<>> /\ district_dtype = "object"
  /\ pivot_district = <<>> /\ pivot_columns = <<>>
  /\ merged = <<>>
  /\ unmatched = <<>> /\ matched_df = <<>> /\ regional_df = <<>>
Idle5 ==
  /\ dwellings_df = <<>> /\ sales_df = <<>> /\ merged_df = <<>>
  /\ analysis_df = <<>> /\ complete_df = <<>> /\ summary_table = <<>>

\* ------------------------------------------------------------------- files
\* the input files of the three scripts
LookupFile == "Local_Authority_District_to_Region_(December_2023)_Lookup_in_England.csv"
CensusFile == "RM205-2021-2.csv"
PropertyFile == "pp-monthly-update-new-version.csv"
PreparedCsv == "census_dwelling_data_prepared.csv"
RegionalDwellingsCsv == "census_dwelling_regional_summary.csv"
RegionalSalesCsv == "task_4_regional_property_summary.csv"

\* the other output files, and the three sheets of the task_4 workbook
PivotCsv == "task_4_district_property_counts.csv"
MatchedCsv == "task_4_district_property_counts_matched.csv"
DistrictPivotSheet == "property_analysis_output.xlsx/District_Pivot"
DistrictMatchedSheet == "property_analysis_output.xlsx/District_Matched"
RegionalSummarySheet == "property_analysis_output.xlsx/Regional_Summary"

\* the two output files of task_5
RegionalAnalysisCsv == "regional_analysis_complete.csv"
RegionalAnalysisXlsx == "regional_analysis_complete.xlsx"

InputFiles3 == {LookupFile, CensusFile}
InputFiles4 == {PropertyFile, PreparedCsv}
InputFiles5 == {RegionalDwellingsCsv, RegionalSalesCsv}

\* df.to_csv(name, index=False) / df.to_excel(writer, sheet_name=...): the
\* table as it is at the time of the call, under that name
Written(out, name, df) == (name :> df) @@ out

NoOutputs == <<>>

\* ================================================================== task_5
\* rows of a regional sales summary: D+F+S+T = Total (task_4 sums each column)
SalesCounts ==
  {c \in [PropertyTypes -> 0..MaxSales] :
     c.D + c.F + c.S + c.T <= MaxSales}

DwellingsRow(k, n) == [key |-> k, Total_Dwellings |-> n]

SalesRow(k, c) ==
  [key |-> k, D |-> c.D, F |-> c.F, S |-> c.S, T |-> c.T,
   Total |-> c.D + c.F + c.S + c.T]

KeysOf(df) == {df[i].key : i \in 1..Len(df)}

RowsWithKey(df, k) == SelectSeq(df, LAMBDA r : r.key = k)

RECURSIVE Flatten(_)
Flatten(ss) == IF ss = <<>> THEN <<>> ELSE Head(ss) \o Flatten(Tail(ss))

\* DataFrame.merge(how='outer', on=key): keys ascending; per key the
\* cross product of the left and right rows, or the one-sided rows with
\* the other side's columns null
OuterMergeRows(k, L, R) ==
  LET ls == RowsWithKey(L, k)
      rs == RowsWithKey(R, k)
  IN  IF rs = <<>> THEN
        [i \in 1..Len(ls) |->
           [key |-> k, Total_Dwellings |-> ls[i].Total_Dwellings,
            D |-> NaN, F |-> NaN, S |-> NaN, T |-> NaN, Total |-> NaN]]
      ELSE IF ls = <<>> THEN
        [j \in 1..Len(rs) |->
           [key |-> k, Total_Dwellings |-> NaN,
            D |-> rs[j].D, F |-> rs[j].F, S |-> rs[j].S, T |-> rs[j].T,
            Total |-> rs[j].Total]]
      ELSE
        Flatten([i \in 1..Len(ls) |->
           [j \in 1..Len(rs) |->
              [key |-> k, Total_Dwellings |-> ls[i].Total_Dwellings,
               D |-> rs[j].D, F |-> rs[j].F, S |-> rs[j].S, T |-> rs[j].T,
               Total |-> rs[j].Total]]])

OuterMerge(L, R) ==
  LET ks == SortedSeq(KeysOf(L) \cup KeysOf(R))
  IN  Flatten([n \in 1..Len(ks) |-> OuterMergeRows(ks[n], L, R)])

\* merged[col] = merged[col].fillna(0).astype(int) for the sales columns only
FillSalesCols(r) ==
  [r EXCEPT !.D = FillNa0(@), !.F = FillNa0(@), !.S = FillNa0(@),
            !.T = FillNa0(@), !.Total = FillNa0(@)]

MergeDatasets(dw, sa) ==
  LET m == OuterMerge(dw, sa) IN [i \in 1..Len(m) |-> FillSalesCols(m[i])]

\* rename + the five percentage columns + fillna(0) on each of them
PercentagesRow(r) ==
  [key |-> r.key,
   Total_Dwellings |-> r.Total_Dwellings,
   Sales_Detached |-> r.D, Sales_Flats |-> r.F,
   Sales_Semi |-> r.S, Sales_Terraced |-> r.T,
   Total_Sales |-> r.Total,
   Pct_Detached |-> FillNa0(PctRound(r.D, r.Total)),
   Pct_Flats |-> FillNa0(PctRound(r.F, r.Total)),
   Pct_Semi |-> FillNa0(PctRound(r.S, r.Total)),
   Pct_Terraced |-> FillNa0(PctRound(r.T, r.Total)),
   Sales_Rate |-> FillNa0(PctRound(r.Total, r.Total_Dwellings))]

CalculatePercentages(m) == [i \in 1..Len(m) |-> PercentagesRow(m[i])]

\* mutant of NationalRow: Total_Sales summed without the terraced sales
NationalRowNoTerraced(df) ==
  LET td == SeqSum(Column(df, "Total_Dwellings"))
      sd == SeqSum(Column(df, "Sales_Detached"))
      sf == SeqSum(Column(df, "Sales_Flats"))
      ss == SeqSum(Column(df, "Sales_Semi"))
      st == SeqSum(Column(df, "Sales_Terraced"))
      ts == sd + sf + ss
  IN  [key |-> NATIONAL,
       Total_Dwellings |-> td,
       Sales_Detached |-> sd, Sales_Flats |-> sf,
       Sales_Semi |-> ss, Sales_Terraced |-> st,
       Total_Sales |-> ts,
       Pct_Detached |-> PctRound(sd, ts),
       Pct_Flats |-> PctRound(sf, ts),
       Pct_Semi |-> PctRound(ss, ts),
       Pct_Terraced |-> PctRound(st, ts),
       Sales_Rate |-> PctRound(ts, td)]

\* the one-row national frame: column sums, then percentages without fillna
NationalRow(df) ==
  LET td == SeqSum(Column(df, "Total_Dwellings"))
      sd == SeqSum(Column(df, "Sales_Detached"))
      sf == SeqSum(Column(df, "Sales_Flats"))
      ss == SeqSum(Column(df, "Sales_Semi"))
      st == SeqSum(Column(df, "Sales_Terraced"))
      ts == SeqSum(Column(df, "Total_Sales"))
  IN  [key |-> NATIONAL,
       Total_Dwellings |-> td,
       Sales_Detached |-> sd, Sales_Flats |-> sf,
       Sales_Semi |-> ss, Sales_Terraced |-> st,
       Total_Sales |-> ts,
       Pct_Detached |-> PctRound(sd, ts),
       Pct_Flats |-> PctRound(sf, ts),
       Pct_Semi |-> PctRound(ss, ts),
       Pct_Terraced |-> PctRound(st, ts),
       Sales_Rate |-> PctRound(ts, td)]

\* pd.concat([merged_df, national], ignore_index=True)
CalculateNationalTotals(df) == Append(df, NationalRow(df))

\* df[df['Region_Code'] != 'NATIONAL']
RegionalOnly(df) == SelectSeq(df, LAMBDA r : r.key # NATIONAL)

\* mutant of ColumnMax: the NATIONAL row is not excluded
ColumnMaxAllRows(df, c) == SeqMax(Column(df, c))

\* the maximum the flags of one percentage column are compared with
ColumnMax(df, c) == SeqMax(Column(RegionalOnly(df), c))

\* df['Max_*'] = df['Pct_*'] == max_*   (every row of df, NATIONAL included)
MaxFlag(df, r, c) == FloatEq(r[c], ColumnMax(df, c))

FlagRow(df, r) ==
  [key |-> r.key,
   Total_Dwellings |-> r.Total_Dwellings,
   Sales_Detached |-> r.Sales_Detached, Sales_Flats |-> r.Sales_Flats,
   Sales_Semi |-> r.Sales_Semi, Sales_Terraced |-> r.Sales_Terraced,
   Total_Sales |-> r.Total_Sales,
   Pct_Detached |-> r.Pct_Detached, Pct_Flats |-> r.Pct_Flats,
   Pct_Semi |-> r.Pct_Semi, Pct_Terraced |-> r.Pct_Terraced,
   Sales_Rate |-> r.Sales_Rate,
   Max_Detached |-> MaxFlag(df, r, "Pct_Detached"),
   Max_Flats |-> MaxFlag(df, r, "Pct_Flats"),
   Max_Semi |-> MaxFlag(df, r, "Pct_Semi"),
   Max_Terraced |-> MaxFlag(df, r, "Pct_Terraced"),
   Max_Sales_Rate |-> MaxFlag(df, r, "Sales_Rate")]

IdentifyMaxima(df) == [i \in 1..Len(df) |-> FlagRow(df, df[i])]

\* the five percentage columns and the flag column of each
PctColumns == {"Pct_Detached", "Pct_Flats", "Pct_Semi", "Pct_Terraced"}
RateColumns == PctColumns \cup {"Sales_Rate"}

FlagOf(c) ==
  CASE c = "Pct_Detached" -> "Max_Detached"
    [] c = "Pct_Flats" -> "Max_Flats"
    [] c = "Pct_Semi" -> "Max_Semi"
    [] c = "Pct_Terraced" -> "Max_Terraced"
    [] c = "Sales_Rate" -> "Max_Sales_Rate"

\* df[[...]].copy(): the region key and the sixteen value and flag columns
SummaryRow(r) ==
  [key |-> r.key,
   Total_Dwellings |-> r.Total_Dwellings,
   Sales_Detached |-> r.Sales_Detached, Sales_Flats |-> r.Sales_Flats,
   Sales_Semi |-> r.Sales_Semi, Sales_Terraced |-> r.Sales_Terraced,
   Total_Sales |-> r.Total_Sales,
   Pct_Detached |-> r.Pct_Detached, Pct_Flats |-> r.Pct_Flats,
   Pct_Semi |-> r.Pct_Semi, Pct_Terraced |-> r.Pct_Terraced,
   Sales_Rate |-> r.Sales_Rate,
   Max_Detached |-> r.Max_Detached, Max_Flats |-> r.Max_Flats,
   Max_Semi |-> r.Max_Semi, Max_Terraced |-> r.Max_Terraced,
   Max_Sales_Rate |-> r.Max_Sales_Rate]

\* one row of the 'Regional Analysis' sheet: the cells, and the percentage
\* cells given the highlight fill (the row's Max_* flag is True)
SheetRow(r) == [cells |-> r, highlighted |-> {c \in RateColumns : r[FlagOf(c)]}]

\* one row of the sheet as df.to_excel alone leaves it: no cell highlighted
PlainSheetRow(r) == [cells |-> r, highlighted |-> {}]

\* task_5 starts: each of its two input files exists or does not
Init5 ==
  /\ pc = "t5_start"
  /\ missing \in SUBSET InputFiles5
  /\ reported = {}
  /\ outputs = NoOutputs
  /\ dwellings_df = <<>>
  /\ sales_df = <<>>
  /\ merged_df = <<>>
  /\ analysis_df = <<>>
  /\ complete_df = <<>>
  /\ summary_table = <<>>
  /\ final_df = <<>>
  /\ lookup_df = <<>>
  /\ Idle3
  /\ Idle4

\* load_data: the two regional summaries written by task_3 and task_4, each
\* a groupby result (one row per region key, keys ascending)
load_data ==
  /\ pc = "t5_start"
  /\ missing \cap InputFiles5 = {}
  /\ \E dk \in SUBSET Regions, sk \in SUBSET Regions :
       \E dv \in [dk -> 0..MaxDwellings], sv \in [sk -> SalesCounts] :
         /\ SeqSum([i \in 1..MaxRegions |->
                      IF i \in sk THEN SalesRow(i, sv[i]).Total ELSE 0]) <= MaxSales
         /\ dwellings_df' = LET ks == SortedSeq(dk)
                             IN  [i \in 1..Len(ks) |-> DwellingsRow(ks[i], dv[ks[i]])]
         /\ sales_df' = LET ks == SortedSeq(sk)
                         IN  [i \in 1..Len(ks) |-> SalesRow(ks[i], sv[ks[i]])]
  /\ pc' = "t5_loaded"
  /\ UNCHANGED <<files, summary_table, merged_df, analysis_df, complete_df, final_df, lookup_df, vars3, vars4>>

\* one of the two pd.read_csv calls of load_data raises FileNotFoundError;
\* nothing in task_5 catches it, so main ends with the exception
load_data_raises ==
  /\ pc = "t5_start"
  /\ missing \cap InputFiles5 # {}
  /\ pc' = "t5_load_raised"
  /\ UNCHANGED <<files, dwellings_df, sales_df, merged_df, analysis_df, complete_df,
                 summary_table, final_df, lookup_df, vars3, vars4>>

merge_datasets ==
  /\ pc = "t5_loaded"
  /\ merged_df' = MergeDatasets(dwellings_df, sales_df)
  /\ pc' = "t5_merged"
  /\ UNCHANGED <<files, summary_table, dwellings_df, sales_df, analysis_df, complete_df, final_df, lookup_df, vars3, vars4>>

\* Total_Dwellings of a header-only dwellings file is read as an object
\* column, and the outer merge keeps that dtype: line 67 then rounds an object
\* Series. With rows in it Series.round raises TypeError; with no row at all
\* (the sales file is header-only too) it raises or returns the empty Series,
\* as the installed pandas does.
calculate_percentages ==
  /\ pc = "t5_merged"
  /\ dwellings_df # <<>> \/ merged_df = <<>>
  /\ analysis_df' = CalculatePercentages(merged_df)
  /\ pc' = "t5_percentages"
  /\ UNCHANGED <<files, summary_table, dwellings_df, sales_df, merged_df, complete_df, final_df, lookup_df, vars3, vars4>>

\* Series.round at line 67 raises TypeError on the object column; nothing
\* catches it, so main ends with the exception before any output
calculate_percentages_raises ==
  /\ pc = "t5_merged"
  /\ dwellings_df = <<>>
  /\ pc' = "t5_percentages_raised"
  /\ UNCHANGED <<files, dwellings_df, sales_df, merged_df, analysis_df, complete_df,
                 summary_table, final_df, lookup_df, vars3, vars4>>

calculate_national_totals ==
  /\ pc = "t5_percentages"
  /\ complete_df' = CalculateNationalTotals(analysis_df)
  /\ pc' = "t5_national"
  /\ UNCHANGED <<files, summary_table, dwellings_df, sales_df, merged_df, analysis_df, final_df, lookup_df, vars3, vars4>>

\* the flags are assigned into df in place; the report that follows calls
\* idxmax on the regional rows, which raises when there are none
identify_maxima ==
  /\ pc = "t5_national"
  /\ complete_df' = IdentifyMaxima(complete_df)
  /\ IF RegionalOnly(complete_df) = <<>>
       THEN pc' = "t5_raised" /\ final_df' = final_df
       ELSE pc' = "t5_maxima" /\ final_df' = complete_df'
  /\ UNCHANGED <<files, summary_table, dwellings_df, sales_df, merged_df, analysis_df, lookup_df, vars3, vars4>>

\* main lines 308-320: create_summary_table (the eighteen columns, in order),
\* then its CSV
create_summary_table ==
  /\ pc = "t5_maxima"
  /\ summary_table' = [i \in 1..Len(final_df) |-> SummaryRow(final_df[i])]
  /\ outputs' = Written(outputs, RegionalAnalysisCsv, summary_table')
  /\ pc' = "t5_csv_saved"
  /\ UNCHANGED <<missing, reported, dwellings_df, sales_df, merged_df, analysis_df,
                 complete_df, final_df, lookup_df, vars3, vars4>>

\* Whether openpyxl can be imported, and whether to_excel then finds another
\* Excel engine, is a fact of the installation that the run meets at the
\* import of line 186: one of the three actions below is taken.

\* main lines 323-327, try branch (openpyxl importable): the workbook is
\* written, reloaded, the percentage cells of the flagged rows are
\* highlighted, and it is saved again; then 'Task 5 Complete!'
save_to_excel_with_formatting ==
  /\ pc = "t5_csv_saved"
  /\ outputs' = Written(outputs, RegionalAnalysisXlsx,
                        [i \in 1..Len(summary_table) |-> SheetRow(summary_table[i])])
  /\ pc' = "t5_complete"
  /\ UNCHANGED <<missing, reported, dwellings_df, sales_df, merged_df, analysis_df,
                 complete_df, summary_table, final_df, lookup_df, vars3, vars4>>

\* the import raises ImportError and the except branch (lines 275-278) writes
\* the workbook with df.to_excel through another engine: no cell is
\* highlighted; then 'Task 5 Complete!'
save_to_excel_without_formatting ==
  /\ pc = "t5_csv_saved"
  /\ outputs' = Written(outputs, RegionalAnalysisXlsx,
                        [i \in 1..Len(summary_table) |-> PlainSheetRow(summary_table[i])])
  /\ pc' = "t5_complete"
  /\ UNCHANGED <<missing, reported, dwellings_df, sales_df, merged_df, analysis_df,
                 complete_df, summary_table, final_df, lookup_df, vars3, vars4>>

\* the import raises ImportError and df.to_excel of the except branch finds
\* no engine either: it raises ImportError out of the handler, no workbook
\* is written and main ends with the exception
save_to_excel_raises ==
  /\ pc = "t5_csv_saved"
  /\ pc' = "t5_excel_raised"
  /\ UNCHANGED <<files, dwellings_df, sales_df, merged_df, analysis_df,
                 complete_df, summary_table, final_df, lookup_df, vars3, vars4>>

Next5 ==
  \/ load_data
  \/ load_data_raises
  \/ merge_datasets
  \/ calculate_percentages
  \/ calculate_percentages_raises
  \/ calculate_national_totals
  \/ identify_maxima
  \/ create_summary_table
  \/ save_to_excel_with_formatting
  \/ save_to_excel_without_formatting
  \/ save_to_excel_raises

Spec5 == Init5 /\ [][Next5]_vars

\* main up to identify_maxima
SpecMaxima5 ==
  Init5 /\ [][load_data \/ load_data_raises \/ merge_datasets \/ calculate_percentages
                \/ calculate_percentages_raises \/ calculate_national_totals
                \/ identify_maxima]_vars

\* ------------------------------------------------------- task_5 properties
DenominatorOf(c) == IF c = "Sales_Rate" THEN "Total_Dwellings" ELSE "Total_Sales"

National5 ==
  pc \in {"t5_national", "t5_maxima", "t5_raised", "t5_csv_saved", "t5_complete",
          "t5_excel_raised"}

\* a percentage cell obeys the zero-denominator rule and the [0, 100] range
CellInRange(r, c) ==
  LET v == r[c]
      d == r[DenominatorOf(c)]
  IN  /\ v # NaN
      /\ v # Inf
      /\ (d # NaN /\ d > 0) => (0 <= v /\ v <= 10000)
      /\ d = 0 => v = 0

\* C1 (as claimed): in every row of the table after calculate_percentages and
\* calculate_national_totals, regional rows and the NATIONAL row alike, each
\* percentage column is in [0, 100] when its denominator is positive, exactly
\* 0 when its denominator is 0, and never NaN or infinite.
C1_PercentagesInRange ==
  National5 =>
    \A i \in 1..Len(complete_df) : \A c \in RateColumns :
      CellInRange(complete_df[i], c)

\* the regional rows of the flagged table, by index
RegionalIdx(df) == {i \in 1..Len(df) : df[i].key # NATIONAL}

\* v is the maximum of column c over the regional rows of df
IsRegionalMax(df, c, v) ==
  /\ \E j \in RegionalIdx(df) : df[j][c] = v
  /\ \A j \in RegionalIdx(df) : FloatLe(df[j][c], v)

\* C2: after identify_maxima, for each percentage column at least one regional
\* row is flagged, every flagged row holds the maximum over the regional rows,
\* and every regional row holding that maximum is flagged (ties included).
C2_MaximaFlags ==
  pc = "t5_maxima" =>
    \A c \in RateColumns :
      /\ \E i \in RegionalIdx(final_df) : final_df[i][FlagOf(c)]
      /\ \A i \in 1..Len(final_df) :
           final_df[i][FlagOf(c)] => IsRegionalMax(final_df, c, final_df[i][c])
      /\ \A i \in RegionalIdx(final_df) :
           IsRegionalMax(final_df, c, final_df[i][c]) => final_df[i][FlagOf(c)]

\* two regions tie on a positive Pct_Detached maximum and both are flagged,
\* while only one of them holds the Sales_Rate maximum
C2_Witness ==
  /\ pc = "t5_maxima"
  /\ Len(final_df) = 3
  /\ final_df[1].Pct_Detached = final_df[2].Pct_Detached
  /\ final_df[1].Pct_Detached > 0
  /\ final_df[1].Max_Detached /\ final_df[2].Max_Detached
  /\ final_df[1].Max_Sales_Rate /\ ~final_df[2].Max_Sales_Rate

\* C3 (as claimed): the NATIONAL row never influences a column maximum and
\* none of its Max_* flags is ever true.
C3_NationalNeverFlagged ==
  pc = "t5_maxima" =>
    \A i \in 1..Len(final_df) : \A c \in RateColumns :
      final_df[i].key = NATIONAL =>
        /\ ColumnMax(final_df, c) = SeqMax(Column(RegionalOnly(analysis_df), c))
        /\ ~final_df[i][FlagOf(c)]

CountColumns ==
  {"Total_Dwellings", "Sales_Detached", "Sales_Flats", "Sales_Semi",
   "Sales_Terraced", "Total_Sales"}

\* the sum of column c over the first n rows of df that are regional rows,
\* a null cell adding nothing
RECURSIVE RegionalSum(_, _, _)
RegionalSum(df, c, n) ==
  IF n = 0 THEN 0
  ELSE RegionalSum(df, c, n - 1) +
       (IF df[n].key = NATIONAL \/ df[n][c] = NaN THEN 0 ELSE df[n][c])

\* C4: the table returned by calculate_national_totals has exactly one
\* NATIONAL row, each count column of that row is the sum of the column over
\* the regional rows, and the regional rows are those of the input, unchanged.
C4_NationalTotals ==
  pc = "t5_national" =>
    /\ Cardinality({i \in 1..Len(complete_df) : complete_df[i].key = NATIONAL}) = 1
    /\ \A i \in 1..Len(complete_df) : \A c \in CountColumns :
         complete_df[i].key = NATIONAL =>
           complete_df[i][c] = RegionalSum(complete_df, c, Len(complete_df))
    /\ Len(complete_df) = Len(analysis_df) + 1
    /\ \A i \in 1..Len(analysis_df) : complete_df[i] = analysis_df[i]

\* two regions with sales and dwellings each, summed into the NATIONAL row
C4_Witness ==
  /\ pc = "t5_national"
  /\ Len(complete_df) = 3
  /\ complete_df[1].Total_Sales > 0 /\ complete_df[2].Total_Sales > 0
  /\ complete_df[1].Total_Dwellings > 0 /\ complete_df[2].Total_Dwellings > 0
  /\ complete_df[3].key = NATIONAL
  /\ complete_df[3].Total_Sales = complete_df[1].Total_Sales + complete_df[2].Total_Sales

Merged5 ==
  pc \in {"t5_merged", "t5_percentages", "t5_percentages_raised", "t5_national",
          "t5_maxima", "t5_raised",
          "t5_csv_saved", "t5_complete",
          "t5_excel_raised"}

MergedColumns == {"Total_Dwellings", "D", "F", "S", "T", "Total"}

\* C9 (as claimed): for a region present in only one input table the numeric
\* columns of the other table are zero, so the merged table has no null
\* numeric cell.
C9_NoNullNumeric ==
  Merged5 =>
    \A i \in 1..Len(merged_df) : \A c \in MergedColumns :
      /\ merged_df[i][c] # NaN
      /\ merged_df[i].key \notin KeysOf(dwellings_df) => merged_df[i].Total_Dwellings = 0
      /\ merged_df[i].key \notin KeysOf(sales_df) =>
           (c # "Total_Dwellings" => merged_df[i][c] = 0)

\* ================================================================== task_4
\* A name is a sequence of characters; str.strip and str.upper are computed
\* character by character.
Upper(c) == CASE c = "a" -> "A" [] c = "b" -> "B" [] OTHER -> c

CharCode(c) ==
  CASE c = " " -> 32 [] c = "A" -> 65 [] c = "B" -> 66
    [] c = "a" -> 97 [] c = "b" -> 98

RECURSIVE LStrip(_)
LStrip(s) == IF s # <<>> /\ Head(s) = " " THEN LStrip(Tail(s)) ELSE s

RECURSIVE RStrip(_)
RStrip(s) ==
  IF s # <<>> /\ s[Len(s)] = " " THEN RStrip(SubSeq(s, 1, Len(s) - 1)) ELSE s

\* Series.str.strip().str.upper()
Clean(s) == LET t == RStrip(LStrip(s)) IN [i \in 1..Len(t) |-> Upper(t[i])]

\* Python's string order
RECURSIVE StrLess(_, _)
StrLess(a, b) ==
  IF b = <<>> THEN FALSE
  ELSE IF a = <<>> THEN TRUE
  ELSE IF Head(a) # Head(b) THEN CharCode(Head(a)) < CharCode(Head(b))
  ELSE StrLess(Tail(a), Tail(b))

RECURSIVE SortedNames(_)
SortedNames(S) ==
  IF S = {} THEN <<>>
  ELSE LET m == CHOOSE x \in S : \A y \in S \ {x} : StrLess(x, y)
       IN  <<m>> \o SortedNames(S \ {m})

\* a null cell of a text column
NullStr == <<>>

\* the District values of the transactions, the LAD_Name values of the lookup
DistrictNames == {<<"A">>, <<"a", " ">>, <<"B">>}
LookupNames == {<<"a">>, <<" ", "A">>, <<"b">>}

\* the Transaction_ID cell of a row of the property file: an identifier, or
\* null when the field is empty
TransactionIds == {1, NaN}

\* a row process_property_data keeps: its Property_Type is one of D, F, S, T
\* (the isin filter); its Transaction_ID and its District are as read, null
\* included, since no step drops a row for them
Transactions ==
  [Transaction_ID : TransactionIds, District : DistrictNames \cup {NullStr},
   Property_Type : PropertyTypes]

SeqsUpTo(S, lo, hi) == UNION {[1..n -> S] : n \in lo..hi}

\* census_dwelling_data_prepared.csv: Region_Code and Region_Name are both
\* set, or both null for a LAD task_3 found no region for
LookupRows4 ==
  {[LAD_Name |-> n, Region_Code |-> r, Region_Name |-> r] :
     n \in LookupNames, r \in Regions \cup {NaN}}

\* pd.pivot_table groups df by (District, Property_Type); a row whose District
\* is null belongs to no group (groupby drops null keys)
Grouped(df) == SelectSeq(df, LAMBDA r : r.District # NullStr)

\* the groups' Property_Type values: the columns of the pivot_table result
ObservedTypes(df) == {Grouped(df)[i].Property_Type : i \in 1..Len(Grouped(df))}

\* the list ['D', 'F', 'S', 'T'] of lines 100 and 105
PropertyTypeList == <<"D", "F", "S", "T">>

SeqRange(s) == {s[i] : i \in 1..Len(s)}

\* the columns of the pivot_table result, left to right: the observed
\* property types in ascending order
PivotTableColumns(df) ==
  SelectSeq(PropertyTypeList, LAMBDA t : t \in ObservedTypes(df))

\* aggfunc='count' on values='Transaction_ID': the cell of (d, t) is the
\* number of non-null Transaction_ID values of the group; a pair with no
\* group gets fill_value = 0
PivotCounts(df, d) ==
  [t \in ObservedTypes(df) |->
     LET g == {i \in 1..Len(df) : df[i].District = d /\ df[i].Property_Type = t}
     IN  IF g = {} THEN 0
         ELSE Cardinality({i \in g : ~IsNull(df[i].Transaction_ID)})]

\* for prop_type in ['D','F','S','T']: if missing, pivot[prop_type] = 0
EnsureColumns(counts) ==
  [t \in PropertyTypes |-> IF t \in DOMAIN counts THEN counts[t] ELSE 0]

\* the same loop on the column list: a missing type is appended on the right,
\* in the order of the loop
EnsureColumnNames(cols) ==
  cols \o SelectSeq(PropertyTypeList, LAMBDA t : t \notin SeqRange(cols))

\* pivot[['D', 'F', 'S', 'T']]: the listed columns, in the order of the list
ReorderColumns(cols) == SelectSeq(PropertyTypeList, LAMBDA t : t \in SeqRange(cols))

\* pivot['Total'] = pivot.sum(axis=1) appends Total on the right;
\* reset_index() inserts the index, District, on the left
CreatePivotColumns(df) ==
  <<"District">> \o
    Append(ReorderColumns(EnsureColumnNames(PivotTableColumns(df))), "Total")

\* the cells of one row of the result, by column name
PivotRow(d, counts) ==
  [District |-> d, D |-> counts.D, F |-> counts.F, S |-> counts.S,
   T |-> counts.T, Total |-> counts.D + counts.F + counts.S + counts.T]

\* the rows of the result: one per District of a group, in ascending order
CreatePivotByDistrict(df) ==
  LET ds == SortedNames({Grouped(df)[i].District : i \in 1..Len(Grouped(df))})
  IN  [n \in 1..Len(ds) |-> PivotRow(ds[n], EnsureColumns(PivotCounts(df, ds[n])))]

\* pivot_df['District_Clean'] = ..., assigned into the caller's table
WithDistrictClean(r) ==
  [District |-> r.District, D |-> r.D, F |-> r.F, S |-> r.S, T |-> r.T,
   Total |-> r.Total, District_Clean |-> Clean(r.District)]

\* lookup_df['LAD_Name_Clean'] = ..., assigned into the caller's table
WithLadNameClean(r) ==
  [LAD_Name |-> r.LAD_Name, Region_Code |-> r.Region_Code,
   Region_Name |-> r.Region_Name, LAD_Name_Clean |-> Clean(r.LAD_Name)]

MergedRow4(l, name, clean, code, region) ==
  [District |-> l.District, D |-> l.D, F |-> l.F, S |-> l.S, T |-> l.T,
   Total |-> l.Total, District_Clean |-> l.District_Clean,
   LAD_Name |-> name, LAD_Name_Clean |-> clean,
   Region_Code |-> code, Region_Name |-> region]

\* pivot_df.merge(lookup_df[[...]], left_on='District_Clean',
\* right_on='LAD_Name_Clean', how='left'): left order kept, one output row
\* per matching lookup row, one null-filled row when nothing matches
LeftMergeRows4(l, R) ==
  LET rs == SelectSeq(R, LAMBDA r : r.LAD_Name_Clean = l.District_Clean)
  IN  IF rs = <<>> THEN <<MergedRow4(l, NullStr, NullStr, NaN, NaN)>>
      ELSE [j \in 1..Len(rs) |->
              MergedRow4(l, rs[j].LAD_Name, rs[j].LAD_Name_Clean,
                         rs[j].Region_Code, rs[j].Region_Name)]

LeftMerge4(L, R) == Flatten([i \in 1..Len(L) |-> LeftMergeRows4(L[i], R)])

\* the final column selection of match_with_lookup
ResultRow4(m) ==
  [District |-> m.District, LAD_Name |-> m.LAD_Name,
   Region_Code |-> m.Region_Code, Region_Name |-> m.Region_Name,
   D |-> m.D, F |-> m.F, S |-> m.S, T |-> m.T, Total |-> m.Total]

\* unmatched[['District','D','F','S','T','Total']] as printed in the warning
UnmatchedRow4(m) ==
  [District |-> m.District, D |-> m.D, F |-> m.F, S |-> m.S, T |-> m.T,
   Total |-> m.Total]

\* groupby(['Region_Code', 'Region_Name']): the group keys in ascending
\* order; a row with a null key column belongs to no group (dropna=True)
GroupKeys(df) ==
  SortedSeq({df[i].Region_Code :
               i \in {j \in 1..Len(df) : ~IsNull(df[j].Region_Code)
                                            /\ ~IsNull(df[j].Region_Name)}})

GroupRows(df, k) ==
  SelectSeq(df, LAMBDA r : r.Region_Code = k /\ ~IsNull(r.Region_Name))

\* .agg({'D': 'sum', 'F': 'sum', 'S': 'sum', 'T': 'sum', 'Total': 'sum'})
\* .reset_index()
RegionalRow4(df, k) ==
  LET g == GroupRows(df, k)
  IN  [Region_Code |-> k, Region_Name |-> g[1].Region_Name,
       D |-> SeqSum(Column(g, "D")), F |-> SeqSum(Column(g, "F")),
       S |-> SeqSum(Column(g, "S")), T |-> SeqSum(Column(g, "T")),
       Total |-> SeqSum(Column(g, "Total"))]

CreateRegionalSummary(df) ==
  LET ks == GroupKeys(df) IN [n \in 1..Len(ks) |-> RegionalRow4(df, ks[n])]

\* pd.read_csv gives the District column of the property file the object
\* dtype when a row of the file has a District, and float64 when the field is
\* empty on every row; a row of the file that has one may be among those the
\* filters removed
DistrictDtypes(df) ==
  IF \E i \in 1..Len(df) : df[i].District # NullStr
    THEN {"object"} ELSE {"object", "float64"}

\* task_4 starts: each of its two input files exists or does not
Init4 ==
  /\ pc = "t4_start"
  /\ missing \in SUBSET InputFiles4
  /\ reported = {}
  /\ outputs = NoOutputs
  /\ processed_df = <<>>
  /\ district_dtype = "object"
  /\ pivot_district = <<>>
  /\ pivot_columns = <<>>
  /\ merged = <<>>
  /\ unmatched = <<>>
  /\ matched_df = <<>>
  /\ regional_df = <<>>
  /\ lookup_df = <<>>
  /\ final_df = <<>>
  /\ Idle3
  /\ Idle5

\* load_property_data and process_property_data: the property file is read
\* and the 'A' records of the latest month with a property type in D, F, S, T
\* are left, possibly none
process_property_data ==
  /\ pc = "t4_start"
  /\ PropertyFile \notin missing
  /\ processed_df' \in SeqsUpTo(Transactions, 0, MaxTransactions)
  /\ district_dtype' \in DistrictDtypes(processed_df')
  /\ pc' = "t4_processed"
  /\ UNCHANGED <<files, pivot_district, pivot_columns, merged, unmatched, matched_df, regional_df,
                 lookup_df, final_df, vars3, vars5>>

\* 'import openpyxl' at the top of task_4 (line 5) raises ImportError when
\* the library is not installed: the script ends before main is called
import_openpyxl_raises ==
  /\ pc = "t4_start"
  /\ pc' = "t4_import_raised"
  /\ UNCHANGED <<files, processed_df, district_dtype, pivot_district, pivot_columns, merged,
                 unmatched, matched_df,
                 regional_df, lookup_df, final_df, vars3, vars5>>

\* pd.read_csv in load_property_data raises FileNotFoundError outside the
\* try block of main, so main ends with the exception
load_property_data_raises ==
  /\ pc = "t4_start"
  /\ PropertyFile \in missing
  /\ pc' = "t4_load_raised"
  /\ UNCHANGED <<files, processed_df, district_dtype, pivot_district, pivot_columns, merged,
                 unmatched, matched_df,
                 regional_df, lookup_df, final_df, vars3, vars5>>

\* main lines 197-201: the pivot, then its CSV
create_pivot_by_district ==
  /\ pc = "t4_processed"
  /\ pivot_district' = CreatePivotByDistrict(processed_df)
  /\ pivot_columns' = CreatePivotColumns(processed_df)
  /\ outputs' = Written(outputs, PivotCsv, pivot_district')
  /\ pc' = "t4_pivoted"
  /\ UNCHANGED <<missing, reported, processed_df, district_dtype, merged, unmatched, matched_df,
                 regional_df, lookup_df, final_df, vars3, vars5>>

\* pd.read_csv('census_dwelling_data_prepared.csv') succeeds
load_lookup ==
  /\ pc = "t4_pivoted"
  /\ PreparedCsv \notin missing
  /\ lookup_df' \in SeqsUpTo(LookupRows4, 0, MaxLookupRows)
  /\ pc' = "t4_lookup_loaded"
  /\ UNCHANGED <<files, processed_df, district_dtype, pivot_district, pivot_columns, merged,
                 unmatched, matched_df,
                 regional_df, final_df, vars3, vars5>>

\* pd.read_csv raises FileNotFoundError: the handler reports it and main
\* goes on to 'Processing Complete!'
lookup_not_found ==
  /\ pc = "t4_pivoted"
  /\ PreparedCsv \in missing
  /\ reported' = reported \cup {PreparedCsv}
  /\ pc' = "t4_complete"
  /\ UNCHANGED <<missing, outputs, processed_df, district_dtype, pivot_district, pivot_columns, merged,
                 unmatched,
                 matched_df, regional_df, lookup_df, final_df, vars3, vars5>>

\* main lines 210-214: match_with_lookup, then the matched CSV
match_with_lookup ==
  /\ pc = "t4_lookup_loaded"
  /\ district_dtype = "object"
  /\ pivot_district' = [i \in 1..Len(pivot_district) |->
                          WithDistrictClean(pivot_district[i])]
  /\ pivot_columns' = Append(pivot_columns, "District_Clean")
  /\ lookup_df' = [i \in 1..Len(lookup_df) |-> WithLadNameClean(lookup_df[i])]
  /\ merged' = LeftMerge4(pivot_district', lookup_df')
  /\ LET un == SelectSeq(merged', LAMBDA m : IsNull(m.Region_Name))
         ma == SelectSeq(merged', LAMBDA m : ~IsNull(m.Region_Name))
     IN  /\ unmatched' = [i \in 1..Len(un) |-> UnmatchedRow4(un[i])]
         /\ matched_df' = [i \in 1..Len(ma) |-> ResultRow4(ma[i])]
  /\ outputs' = Written(outputs, MatchedCsv, matched_df')
  /\ pc' = "t4_matched"
  /\ UNCHANGED <<missing, reported, processed_df, district_dtype, regional_df, final_df, vars3, vars5>>

\* pivot_df['District'].str at line 125 raises AttributeError when District is
\* not a string column; 'except FileNotFoundError' does not catch it, so main
\* ends with the exception, the pivot CSV its only output
match_with_lookup_raises ==
  /\ pc = "t4_lookup_loaded"
  /\ district_dtype = "float64"
  /\ pc' = "t4_match_raised"
  /\ UNCHANGED <<files, processed_df, district_dtype, pivot_district, pivot_columns,
                 merged, unmatched, matched_df, regional_df, lookup_df, final_df,
                 vars3, vars5>>

\* main lines 218-222: create_regional_summary, then the regional CSV
create_regional_summary ==
  /\ pc = "t4_matched"
  /\ regional_df' = CreateRegionalSummary(matched_df)
  /\ outputs' = Written(outputs, RegionalSalesCsv, regional_df')
  /\ pc' = "t4_summarised"
  /\ UNCHANGED <<missing, reported, processed_df, district_dtype, pivot_district, pivot_columns, merged,
                 unmatched,
                 matched_df, lookup_df, final_df, vars3, vars5>>

\* main lines 226-240: the three sheets of the workbook, each the table as it
\* is now, then 'Processing Complete!'
write_excel ==
  /\ pc = "t4_summarised"
  /\ outputs' = Written(Written(Written(outputs,
                    DistrictPivotSheet, pivot_district),
                    DistrictMatchedSheet, matched_df),
                    RegionalSummarySheet, regional_df)
  /\ pc' = "t4_complete"
  /\ UNCHANGED <<missing, reported, processed_df, district_dtype, pivot_district, pivot_columns, merged,
                 unmatched,
                 matched_df, regional_df, lookup_df, final_df, vars3, vars5>>

Next4 ==
  \/ import_openpyxl_raises
  \/ process_property_data
  \/ load_property_data_raises
  \/ create_pivot_by_district
  \/ load_lookup
  \/ lookup_not_found
  \/ match_with_lookup
  \/ match_with_lookup_raises
  \/ create_regional_summary
  \/ write_excel

Spec4 == Init4 /\ [][Next4]_vars

\* create_pivot_by_district applied to every bounded transaction table
SpecPivot4 == Init4 /\ [][process_property_data \/ create_pivot_by_district]_vars

\* ------------------------------------------------------- task_4 properties
TxCount(d, t) ==
  Cardinality({i \in 1..Len(processed_df) :
                 processed_df[i].District = d /\ processed_df[i].Property_Type = t})

\* the District values of the input rows; a row without a District belongs
\* to no district
InputDistricts ==
  {processed_df[i].District : i \in 1..Len(processed_df)} \ {NullStr}

\* the result as the contract describes it: one row per distinct District,
\* the columns District, D, F, S, T, Total in that order, each of D, F, S, T
\* the number of input rows of that district and type, and Total = D + F + S
\* + T = the number of input rows of the district
PivotAsDescribed ==
  /\ pivot_columns = <<"District", "D", "F", "S", "T", "Total">>
  /\ {pivot_district[i].District : i \in 1..Len(pivot_district)} = InputDistricts
  /\ \A i, j \in 1..Len(pivot_district) :
       pivot_district[i].District = pivot_district[j].District => i = j
  /\ \A i \in 1..Len(pivot_district) :
       LET r == pivot_district[i] IN
         /\ DOMAIN r = SeqRange(pivot_columns)
         /\ \A t \in PropertyTypes : r[t] = TxCount(r.District, t)
         /\ r.Total = r.D + r.F + r.S + r.T
         /\ r.Total = Cardinality({k \in 1..Len(processed_df) :
                                     processed_df[k].District = r.District})

\* C7 (as claimed): for every filtered transaction table,
\* create_pivot_by_district returns one row per distinct District with exactly
\* the columns District, D, F, S, T, Total in that order; each of D, F, S, T
\* is the number of input rows of that district and type (0 for a type that
\* never occurs), and Total = D + F + S + T = the number of input rows of the
\* district.
C7_PivotCounts == pc = "t4_pivoted" => PivotAsDescribed

PivotDistricts == {pivot_district[i].District : i \in 1..Len(pivot_district)}

MatchedIdx(d) == {j \in 1..Len(matched_df) : matched_df[j].District = d}
UnmatchedIdx(d) == {j \in 1..Len(unmatched) : unmatched[j].District = d}

PivotRowOf(d) ==
  CHOOSE r \in {pivot_district[i] : i \in 1..Len(pivot_district)} : r.District = d

\* C10 (as claimed): every district of the pivot is in exactly one of the
\* matched result (once, with its own counts and the region of the lookup row
\* whose cleaned name equals its cleaned name) and the reported unmatched
\* list; no matched row has a null Region_Name.
C10_MatchedOrUnmatched ==
  pc = "t4_matched" =>
    /\ \A d \in PivotDistricts :
         \/ /\ Cardinality(MatchedIdx(d)) = 1
            /\ UnmatchedIdx(d) = {}
            /\ \A j \in MatchedIdx(d) :
                 /\ \A c \in {"D", "F", "S", "T", "Total"} :
                      matched_df[j][c] = PivotRowOf(d)[c]
                 /\ \E k \in 1..Len(lookup_df) :
                      /\ Clean(lookup_df[k].LAD_Name) = Clean(d)
                      /\ lookup_df[k].Region_Name = matched_df[j].Region_Name
                      /\ lookup_df[k].Region_Code = matched_df[j].Region_Code
         \/ /\ MatchedIdx(d) = {}
            /\ UnmatchedIdx(d) # {}
    /\ \A j \in 1..Len(matched_df) :
         /\ matched_df[j].District \in PivotDistricts
         /\ matched_df[j].Region_Name # NaN

\* ================================================================== task_3
Lads == 1..MaxLads
\* the three values of the census category column, in column (sorted) order
Categories == 1..3

\* a + b on float columns: null if either operand is null
AddNa(a, b) == IF IsNull(a) \/ IsNull(b) THEN NaN ELSE a + b

CensusRow(k, c, v) == [key |-> k, Category |-> c, Observation |-> v]

\* the (LAD, category) pairs in file order
CellSeq == [i \in 1..(MaxLads * 3) |-> <<((i - 1) \div 3) + 1, ((i - 1) % 3) + 1>>]

\* the LAD -> region lookup file: LAD23CD, RGN23CD/RGN23NM
LookupRows3 == {[LAD23CD |-> k, Region |-> r] : k \in Lads, r \in Regions}

\* DataFrame.pivot raises ValueError when an (index, columns) pair repeats
HasDuplicatePair(df) ==
  \E i, j \in 1..Len(df) :
    i # j /\ df[i].key = df[j].key /\ df[i].Category = df[j].Category

\* the value of the wide cell (k, c): the observation, or null when the pair
\* does not occur (pivot has no fill value)
PivotCell(df, k, c) ==
  LET rs == SelectSeq(df, LAMBDA r : r.key = k /\ r.Category = c)
  IN  IF rs = <<>> THEN NaN ELSE rs[1].Observation

\* one wide row: the three pivoted columns renamed by position, then
\* Total_Dwellings and Shared_Dwellings
WideRow(df, k, cs) ==
  LET two == PivotCell(df, k, cs[1])
      three == PivotCell(df, k, cs[2])
      un == PivotCell(df, k, cs[3])
  IN  [LAD_Code |-> k,
       Shared_Two_Spaces |-> two,
       Shared_Three_Plus_Spaces |-> three,
       Unshared_Dwelling |-> un,
       Total_Dwellings |-> AddNa(AddNa(two, three), un),
       Shared_Dwellings |-> AddNa(two, three)]

PivotCensus(df) ==
  LET ks == SortedSeq({df[i].key : i \in 1..Len(df)})
      cs == SortedSeq({df[i].Category : i \in 1..Len(df)})
  IN  [n \in 1..Len(ks) |-> WideRow(df, ks[n], cs)]

FinalRow3(w, r) ==
  [LAD_Code |-> w.LAD_Code, Region_Code |-> r, Region_Name |-> r,
   Unshared_Dwellings |-> w.Unshared_Dwelling,
   Shared_Dwellings |-> w.Shared_Dwellings,
   Shared_Two_Spaces |-> w.Shared_Two_Spaces,
   Shared_Three_Plus_Spaces |-> w.Shared_Three_Plus_Spaces,
   Total_Dwellings |-> w.Total_Dwellings]

\* census_wide.merge(lookup_df[[...]], left_on='LAD_Code',
\* right_on='LAD23CD', how='left')
LeftMergeRows3(w, R) ==
  LET rs == SelectSeq(R, LAMBDA r : r.LAD23CD = w.LAD_Code)
  IN  IF rs = <<>> THEN <<FinalRow3(w, NaN)>>
      ELSE [j \in 1..Len(rs) |-> FinalRow3(w, rs[j].Region)]

LeftMerge3(L, R) == Flatten([i \in 1..Len(L) |-> LeftMergeRows3(L[i], R)])

\* .agg({'Unshared_Dwellings': 'sum', 'Shared_Dwellings': 'sum',
\* 'Total_Dwellings': 'sum'}).reset_index()
RegionalRow3(df, k) ==
  LET g == GroupRows(df, k)
  IN  [Region_Code |-> k, Region_Name |-> g[1].Region_Name,
       Unshared_Dwellings |-> SeqSum(Column(g, "Unshared_Dwellings")),
       Shared_Dwellings |-> SeqSum(Column(g, "Shared_Dwellings")),
       Total_Dwellings |-> SeqSum(Column(g, "Total_Dwellings"))]

RegionalAggregation(df) ==
  LET ks == GroupKeys(df) IN [n \in 1..Len(ks) |-> RegionalRow3(df, ks[n])]

\* task_3 starts: each of its two input files exists or does not
Init3 ==
  /\ pc = "t3_start"
  /\ missing \in SUBSET InputFiles3
  /\ reported = {}
  /\ outputs = NoOutputs
  /\ census_df = <<>>
  /\ lookup_df = <<>>
  /\ census_wide = <<>>
  /\ regional_summary = <<>>
  /\ final_df = <<>>
  /\ Idle4
  /\ Idle5

\* the two pd.read_csv calls of main; per (LAD, category) pair the census
\* file holds one row, the pair twice, or no row
read_csv ==
  /\ pc = "t3_start"
  /\ missing \cap InputFiles3 = {}
  /\ \E cells \in [1..(MaxLads * 3) -> 0..(MaxObservation + 2)] :
       census_df' = Flatten([i \in 1..(MaxLads * 3) |->
                       LET k == CellSeq[i][1]
                           c == CellSeq[i][2]
                       IN  IF cells[i] = MaxObservation + 2 THEN <<>>
                           ELSE IF cells[i] = MaxObservation + 1
                             THEN <<CensusRow(k, c, 0), CensusRow(k, c, 1)>>
                           ELSE <<CensusRow(k, c, cells[i])>>])
  /\ lookup_df' \in SeqsUpTo(LookupRows3, 0, MaxLookupRows)
  /\ pc' = "t3_loaded"
  /\ UNCHANGED <<files, census_wide, regional_summary, final_df, vars4, vars5>>

\* one of the two pd.read_csv calls raises FileNotFoundError; nothing in
\* task_3 catches it, so main ends with the exception
read_csv_raises ==
  /\ pc = "t3_start"
  /\ missing \cap InputFiles3 # {}
  /\ pc' = "t3_load_raised"
  /\ UNCHANGED <<files, census_df, lookup_df, census_wide, regional_summary,
                 final_df, vars4, vars5>>

\* lines 24-51: pivot, positional rename of the five columns, derived totals
pivot_census ==
  /\ pc = "t3_loaded"
  /\ ~HasDuplicatePair(census_df)
  /\ Cardinality({census_df[i].Category : i \in 1..Len(census_df)}) = 3
  /\ census_wide' = PivotCensus(census_df)
  /\ pc' = "t3_pivoted"
  /\ UNCHANGED <<files, census_df, regional_summary, lookup_df, final_df, vars4, vars5>>

\* pivot raises on a repeated pair; the rename raises when the pivot did not
\* produce exactly three category columns
pivot_raises ==
  /\ pc = "t3_loaded"
  /\ ~(/\ ~HasDuplicatePair(census_df)
       /\ Cardinality({census_df[i].Category : i \in 1..Len(census_df)}) = 3)
  /\ pc' = "t3_raised"
  /\ UNCHANGED <<files, census_df, census_wide, regional_summary, lookup_df,
                 final_df, vars4, vars5>>

\* lines 54-97: left merge with the region lookup, column selection, rename,
\* then the prepared CSV
merge_lookup ==
  /\ pc = "t3_pivoted"
  /\ final_df' = LeftMerge3(census_wide, lookup_df)
  /\ outputs' = Written(outputs, PreparedCsv, final_df')
  /\ pc' = "t3_merged"
  /\ UNCHANGED <<missing, reported, census_df, census_wide, regional_summary,
                 lookup_df, vars4, vars5>>

\* lines 100-112: the regional group-by, then its CSV; main returns
regional_aggregation ==
  /\ pc = "t3_merged"
  /\ regional_summary' = RegionalAggregation(final_df)
  /\ outputs' = Written(outputs, RegionalDwellingsCsv, regional_summary')
  /\ pc' = "t3_complete"
  /\ UNCHANGED <<missing, reported, census_df, census_wide, lookup_df, final_df,
                 vars4, vars5>>

Next3 ==
  \/ read_csv
  \/ read_csv_raises
  \/ pivot_census
  \/ pivot_raises
  \/ merge_lookup
  \/ regional_aggregation

Spec3 == Init3 /\ [][Next3]_vars

\* ------------------------------------------------------- task_3 properties
Pivoted3 == pc \in {"t3_pivoted", "t3_merged", "t3_complete"}

CensusKeys == {census_df[i].key : i \in 1..Len(census_df)}

\* the sum of the Observation values of the first n census rows with key k
RECURSIVE ObservationSum(_, _)
ObservationSum(k, n) ==
  IF n = 0 THEN 0
  ELSE ObservationSum(k, n - 1) +
       (IF census_df[n].key = k THEN census_df[n].Observation ELSE 0)

\* C5 (as claimed): the pivot has exactly one wide row per distinct LAD key,
\* the row's Total_Dwellings is the sum of the key's Observation values, and
\* Shared_Dwellings + Unshared_Dwelling = Total_Dwellings.
C5_PivotConservesTotals ==
  Pivoted3 =>
    /\ {census_wide[i].LAD_Code : i \in 1..Len(census_wide)} = CensusKeys
    /\ Len(census_wide) = Cardinality(CensusKeys)
    /\ \A i \in 1..Len(census_wide) :
         /\ census_wide[i].Total_Dwellings
              = ObservationSum(census_wide[i].LAD_Code, Len(census_df))
         /\ FloatEq(AddNa(census_wide[i].Shared_Dwellings,
                          census_wide[i].Unshared_Dwelling),
                    census_wide[i].Total_Dwellings)

PairOccurs(k, c) ==
  \E i \in 1..Len(census_df) : census_df[i].key = k /\ census_df[i].Category = c

WideCell(w, c) ==
  CASE c = 1 -> w.Shared_Two_Spaces
    [] c = 2 -> w.Shared_Three_Plus_Spaces
    [] c = 3 -> w.Unshared_Dwelling

\* C6 (as claimed): a (key, category) pair that does not occur in the census
\* input is zero in the wide table, and the key's Total_Dwellings and
\* Shared_Dwellings are numbers, not null.
C6_MissingPairIsZero ==
  Pivoted3 =>
    \A i \in 1..Len(census_wide) :
      /\ \A c \in Categories :
           ~PairOccurs(census_wide[i].LAD_Code, c) => WideCell(census_wide[i], c) = 0
      /\ census_wide[i].Total_Dwellings # NaN
      /\ census_wide[i].Shared_Dwellings # NaN

\* ======================================================== the three scripts
Init == Init3 \/ Init4 \/ Init5

Next == Next3 \/ Next4 \/ Next5

Spec == Init /\ [][Next]_vars

\* C8 (as claimed): a left-mode merge outputs exactly as many rows as its left
\* table (task_3's lookup merge, the merge inside match_with_lookup), and the
\* outer merge of merge_datasets outputs one row per distinct region key of
\* either input.
C8_MergeRowCounts ==
  /\ pc = "t3_merged" => Len(final_df) = Len(census_wide)
  /\ pc = "t4_matched" => Len(merged) = Len(pivot_district)
  /\ Merged5 =>
       Len(merged_df) = Cardinality(KeysOf(dwellings_df) \cup KeysOf(sales_df))

\* the positions a script is left in by an uncaught FileNotFoundError
LoadRaised == {"t3_load_raised", "t4_load_raised", "t5_load_raised"}

\* C11 (as claimed): whichever input file of a script is missing, the script
\* does not end with the exception but runs to normal completion, having
\* reported every missing file; task_4's main with a missing lookup file ends
\* at 'Processing Complete!' with the district pivot CSV written and none of
\* the matched CSV, the regional summary CSV and the workbook sheets.
C11_MissingFileHandled ==
  /\ pc \notin LoadRaised
  /\ pc \in {"t3_complete", "t4_complete", "t5_complete"} => reported = missing
  /\ (pc = "t4_complete" /\ PreparedCsv \in missing) =>
       DOMAIN outputs = {PivotCsv}

\* C12 (as claimed): the match_with_lookup step leaves the caller's pivot and
\* lookup tables as they were (same columns, same rows), and the
\* District_Pivot sheet of the workbook equals the district pivot CSV
\* written before matching.
C12_MatchLeavesInputsUnchanged ==
  /\ [][(pc = "t4_lookup_loaded" /\ pc' = "t4_matched") =>
          (pivot_district' = pivot_district /\ lookup_df' = lookup_df)]_vars
  /\ [](DistrictPivotSheet \in DOMAIN outputs =>
          outputs[DistrictPivotSheet] = outputs[PivotCsv])

DwellingColumns == {"Unshared_Dwellings", "Shared_Dwellings", "Total_Dwellings"}
SalesColumns == {"D", "F", "S", "T", "Total"}

\* the number of regional summary rows whose key is the region of row r
GroupsOf(summary, r) ==
  Cardinality({n \in 1..Len(summary) :
                 /\ summary[n].Region_Code = r.Region_Code
                 /\ summary[n].Region_Name = r.Region_Name})

\* C13 (as claimed): every row of the district-level table (task_3's final_df,
\* LADs without a region included; task_4's matched table) is counted in
\* exactly one regional group, and each summed column has the same total over
\* the regional summary as over the district-level table.
C13_GroupByConservesTotals ==
  /\ pc = "t3_complete" =>
       /\ \A i \in 1..Len(final_df) : GroupsOf(regional_summary, final_df[i]) = 1
       /\ \A c \in DwellingColumns :
            SeqSum(Column(regional_summary, c)) = SeqSum(Column(final_df, c))
  /\ pc \in {"t4_summarised", "t4_complete"} =>
       /\ \A i \in 1..Len(matched_df) : GroupsOf(regional_df, matched_df[i]) = 1
       /\ \A c \in SalesColumns :
            SeqSum(Column(regional_df, c)) = SeqSum(Column(matched_df, c))

\* ---------------------------------------------------- supporting properties
\* task_4 with a missing lookup file: reported, only the pivot CSV written,
\* and that CSV is the pivot
LookupNotFoundHandled ==
  (pc = "t4_complete" /\ PreparedCsv \in missing) =>
    /\ reported = {PreparedCsv}
    /\ DOMAIN outputs = {PivotCsv}
    /\ outputs[PivotCsv] = pivot_district

\* the workbook sheet holds the pivot's rows with one more column, the
\* District_Clean that match_with_lookup assigned into the caller's table
DistrictPivotSheetHasCleanColumn ==
  DistrictPivotSheet \in DOMAIN outputs =>
    /\ Len(outputs[DistrictPivotSheet]) = Len(outputs[PivotCsv])
    /\ \A i \in 1..Len(outputs[PivotCsv]) :
         outputs[DistrictPivotSheet][i] = WithDistrictClean(outputs[PivotCsv][i])

\* task_4's regional summary conserves the totals of the matched table
RegionalSummaryConservesMatchedTotals ==
  pc \in {"t4_summarised", "t4_complete"} =>
    /\ \A i \in 1..Len(matched_df) : GroupsOf(regional_df, matched_df[i]) = 1
    /\ \A c \in SalesColumns :
         SeqSum(Column(regional_df, c)) = SeqSum(Column(matched_df, c))

\* task_3's regional summary conserves totals when every LAD found a region
RegionalAggregationConservesForMatchedLads ==
  (pc = "t3_complete" /\ \A i \in 1..Len(final_df) : ~IsNull(final_df[i].Region_Code)) =>
    \A c \in DwellingColumns :
      SeqSum(Column(regional_summary, c)) = SeqSum(Column(final_df, c))

\* where the right table has at most one row per join key, the left merges
\* keep the left table's row count
UniqueLookupCodes ==
  \A i, j \in 1..Len(lookup_df) :
    lookup_df[i].LAD23CD = lookup_df[j].LAD23CD => i = j

UniqueLookupNames ==
  \A i, j \in 1..Len(lookup_df) :
    Clean(lookup_df[i].LAD_Name) = Clean(lookup_df[j].LAD_Name) => i = j

LeftMergeKeepsRowsForUniqueKeys ==
  /\ (pc = "t3_merged" /\ UniqueLookupCodes) => Len(final_df) = Len(census_wide)
  /\ (pc = "t4_matched" /\ UniqueLookupNames) => Len(merged) = Len(pivot_district)

\* the outer merge gives one row per distinct region key
OuterMergeOneRowPerKey ==
  Merged5 =>
    Len(merged_df) = Cardinality(KeysOf(dwellings_df) \cup KeysOf(sales_df))

\* with one lookup row per cleaned name, every district is matched once or
\* reported as unmatched
MatchedOrUnmatchedForUniqueNames ==
  (pc = "t4_matched" /\ UniqueLookupNames) =>
    /\ \A d \in PivotDistricts :
         Cardinality(MatchedIdx(d)) + Cardinality(UnmatchedIdx(d)) = 1
    /\ \A j \in 1..Len(matched_df) : matched_df[j].Region_Name # NaN

\* where every LAD has a row for each category, the pivot conserves totals
TotalsConservedForCompleteKeys ==
  (Pivoted3 /\ \A k \in CensusKeys : \A c \in Categories : PairOccurs(k, c)) =>
    \A i \in 1..Len(census_wide) :
      census_wide[i].Total_Dwellings
        = ObservationSum(census_wide[i].LAD_Code, Len(census_df))

\* When every input row has a Transaction_ID the pivot is as the contract
\* describes it, column order included.
PivotCountsForIdentifiedRows ==
  (/\ pc = "t4_pivoted"
   /\ \A i \in 1..Len(processed_df) : ~IsNull(processed_df[i].Transaction_ID))
    => PivotAsDescribed

\* a pivot of two districts from rows that all have a Transaction_ID, none of
\* type T, is reached
PivotOfIdentifiedRowsReached ==
  /\ pc = "t4_pivoted"
  /\ Len(pivot_district) = 2
  /\ \A i \in 1..Len(processed_df) :
       /\ ~IsNull(processed_df[i].Transaction_ID)
       /\ processed_df[i].Property_Type # "T"
  /\ pivot_district[1].T = 0
  /\ pivot_district[1].Total = 1 /\ pivot_district[2].Total = 1

====
